---- MODULE Spec2Model ----
(***************************************************************************)
(* A model of modules/styles.py: the prompt-style database (StyleDatabase) *)
(* with its template merge, its style extraction loop and its CSV          *)
(* load/save.                                                              *)
(*                                                                         *)
(* Texts (prompts, templates) are sequences of one-character tokens; the   *)
(* placeholder "{prompt}" is one token PH.  Style names and file paths are *)
(* strings.  None is the one-token text NoneText.                          *)
(***************************************************************************)
EXTENDS Integers, Sequences, FiniteSets, TLC

VARIABLES
    path,             \* self.path, the path specification given to __init__
    disk,             \* the file system: path -> rows of the CSV file there
    styles,           \* self.styles, a dict in insertion order: a sequence of records
    reslot,           \* which element of a re_list entry the name `regex` is bound to
    written,          \* the paths opened for writing by the last save_styles
    op,               \* the operation that ran last
    call,             \* the last apply or module-level call: arguments, outcome (out, out2)
    pc,               \* position of extract_styles_from_prompt
    prompt,           \* its local `prompt`
    negative_prompt,  \* its local `negative_prompt`
    applicable,       \* its local `applicable_styles`
    extracted,        \* its local `extracted`
    passes,           \* passes of its `while True` loop begun so far
    given             \* the (prompt, negative_prompt) arguments it was called with

vars == <<path, disk, styles, reslot, written, op, call, pc, prompt,
          negative_prompt, applicable, extracted, passes, given>>

(***************************************************************************)
(* Bounds of the model.                                                    *)
(***************************************************************************)
MaxLen == 2        \* longest original prompt drawn
MaxNegLen == 1     \* longest original negative prompt drawn
MaxNames == 3      \* longest list of style names applied
MaxRows == 2       \* most rows of a CSV file drawn for load/save
MaxTemplate == 2   \* longest template drawn for the calls of the module-level functions
MaxPasses == 6     \* cap of the pass counter

(***************************************************************************)
(* Text primitives (Python str methods used by the module).                *)
(***************************************************************************)
PH == "{prompt}"
NoneText == <<"None">>
Sep == <<",", " ">>

Texts(alphabet, n) == UNION {[1..k -> alphabet] : k \in 0..n}

Falsy(t) == t = NoneText \/ t = <<>>

IsSpace(c) == c = " "

RECURSIVE LStrip(_)
LStrip(s) == IF s # <<>> /\ IsSpace(Head(s)) THEN LStrip(Tail(s)) ELSE s

RECURSIVE RStrip(_)
RStrip(s) ==
    IF s # <<>> /\ IsSpace(s[Len(s)]) THEN RStrip(SubSeq(s, 1, Len(s) - 1)) ELSE s

Strip(s) == RStrip(LStrip(s))

Contains(s, tok) == \E i \in 1..Len(s) : s[i] = tok

Count(s, tok) == Cardinality({i \in 1..Len(s) : s[i] = tok})

StartsWith(s, p) == Len(p) <= Len(s) /\ SubSeq(s, 1, Len(p)) = p

EndsWith(s, p) == Len(p) <= Len(s) /\ SubSeq(s, Len(s) - Len(p) + 1, Len(s)) = p

RECURSIVE Replace(_, _)
Replace(s, by) ==
    IF s = <<>> THEN <<>>
    ELSE (IF Head(s) = PH THEN by ELSE <<Head(s)>>) \o Replace(Tail(s), by)

Reversed(s) == [i \in 1..Len(s) |-> s[Len(s) + 1 - i]]

(***************************************************************************)
(* merge_prompts and the module-level apply_styles_to_prompt.              *)
(***************************************************************************)
\* merge_prompts joining the prompt as given, without prompt.strip().
merge_prompts_unstripped(style_prompt, prompt_) ==
    IF Contains(style_prompt, PH)
    THEN Replace(style_prompt, prompt_)
    ELSE LET s == Strip(style_prompt)
         IN  IF prompt_ = <<>> THEN s
             ELSE IF s = <<>> THEN prompt_
             ELSE prompt_ \o Sep \o s

merge_prompts(style_prompt, prompt_) ==
    IF Contains(style_prompt, PH)
    THEN Replace(style_prompt, prompt_)
    ELSE LET p == Strip(prompt_)
             s == Strip(style_prompt)
         IN  IF p = <<>> THEN s
             ELSE IF s = <<>> THEN p
             ELSE p \o Sep \o s

\* `"{prompt}" in None` raises TypeError: the fold stops at the first None template.
RECURSIVE apply_styles_to_prompt(_, _)
apply_styles_to_prompt(prompt_, templates) ==
    IF templates = <<>> THEN [raised |-> FALSE, val |-> prompt_]
    ELSE IF Head(templates) = NoneText THEN [raised |-> TRUE, val |-> prompt_]
    ELSE apply_styles_to_prompt(merge_prompts(Head(templates), prompt_), Tail(templates))

(***************************************************************************)
(* The tidy-up loop of extract_style_text_from_prompt.                     *)
(*                                                                         *)
(* Each re_list entry is a set literal {name, pattern, replacement}, so    *)
(* `for _, regex, replace in re_list` unpacks it in the set's iteration    *)
(* order, which depends on the process's hash seed: `regex` is bound to    *)
(* any of the three elements (reslot).  regex.sub(" ", replace, text) then *)
(* fails either way: a str has no attribute `sub`, and a compiled pattern  *)
(* takes `text` as its count argument, which must be an integer.           *)
(***************************************************************************)
ReSlots == {"name", "pattern", "replacement"}

re_list == <<"a_before_vowel", "multiple commas", "multiple spaces">>

regex_sub(slot, text) ==
    [raised |-> TRUE,
     err    |-> IF slot = "pattern" THEN "TypeError" ELSE "AttributeError",
     val    |-> text]

RECURSIVE tidy(_, _, _)
tidy(rules, slot, text) ==
    IF rules = <<>> THEN [raised |-> FALSE, err |-> "", val |-> text]
    ELSE LET r == regex_sub(slot, text)
         IN  IF r.raised THEN r ELSE tidy(Tail(rules), slot, r.val)

(***************************************************************************)
(* The structural match of extract_style_text_from_prompt (after the       *)
(* tidy-up loop).  split("{prompt}", 2) yields three parts when the        *)
(* template holds the placeholder more than once, and unpacking them into  *)
(* `left, right` raises ValueError.                                        *)
(***************************************************************************)
NoMatch(p) == [raised |-> FALSE, err |-> "", matched |-> FALSE, rem |-> p]

Matched(p) == [raised |-> FALSE, err |-> "", matched |-> TRUE, rem |-> p]

Raised(e, p) == [raised |-> TRUE, err |-> e, matched |-> FALSE, rem |-> p]

match_style_text(style_text, p) ==
    IF Contains(style_text, PH)
    THEN IF Count(style_text, PH) > 1 THEN Raised("ValueError", p)
         ELSE LET i     == CHOOSE j \in 1..Len(style_text) : style_text[j] = PH
                  left  == SubSeq(style_text, 1, i - 1)
                  right == SubSeq(style_text, i + 1, Len(style_text))
              IN  IF StartsWith(p, left) /\ EndsWith(p, right)
                  THEN Matched(SubSeq(p, Len(left) + 1, Len(p) - Len(right)))
                  ELSE NoMatch(p)
    ELSE IF EndsWith(p, style_text)
         THEN LET q == SubSeq(p, 1, Len(p) - Len(style_text))
              IN  Matched(IF EndsWith(q, Sep) THEN SubSeq(q, 1, Len(q) - 2) ELSE q)
         ELSE NoMatch(p)

\* `locals()[var] = text` does not rebind the function's variables: the match
\* runs on the texts as given.
extract_style_text_from_prompt(style_text, p, slot) ==
    LET a == tidy(re_list, slot, style_text)
        b == tidy(re_list, slot, p)
    IN  IF a.raised THEN Raised(a.err, p)
        ELSE IF b.raised THEN Raised(b.err, p)
        ELSE match_style_text(style_text, p)

\* extract_style_from_prompts whose early return for a style without
\* templates reports a match.
extract_style_from_prompts_empty_matches(style, p, n, slot) ==
    LET no  == [raised |-> FALSE, err |-> "", is_match |-> FALSE,
                prompt |-> p, negative_prompt |-> n]
        pos == extract_style_text_from_prompt(style.prompt, p, slot)
        neg == extract_style_text_from_prompt(style.negative_prompt, n, slot)
    IN  IF Falsy(style.prompt) /\ Falsy(style.negative_prompt)
        THEN [no EXCEPT !.is_match = TRUE]
        ELSE IF pos.raised THEN [no EXCEPT !.raised = TRUE, !.err = pos.err]
        ELSE IF ~pos.matched THEN no
        ELSE IF neg.raised THEN [no EXCEPT !.raised = TRUE, !.err = neg.err]
        ELSE IF ~neg.matched THEN no
        ELSE [no EXCEPT !.is_match = TRUE, !.prompt = pos.rem,
                        !.negative_prompt = neg.rem]

extract_style_from_prompts(style, p, n, slot) ==
    LET no  == [raised |-> FALSE, err |-> "", is_match |-> FALSE,
                prompt |-> p, negative_prompt |-> n]
        pos == extract_style_text_from_prompt(style.prompt, p, slot)
        neg == extract_style_text_from_prompt(style.negative_prompt, n, slot)
    IN  IF Falsy(style.prompt) /\ Falsy(style.negative_prompt) THEN no
        ELSE IF pos.raised THEN [no EXCEPT !.raised = TRUE, !.err = pos.err]
        ELSE IF ~pos.matched THEN no
        ELSE IF neg.raised THEN [no EXCEPT !.raised = TRUE, !.err = neg.err]
        ELSE IF ~neg.matched THEN no
        ELSE [no EXCEPT !.is_match = TRUE, !.prompt = pos.rem,
                        !.negative_prompt = neg.rem]

(***************************************************************************)
(* One pass of the `while True` loop of extract_styles_from_prompt: the    *)
(* for loop over applicable_styles up to its break, or to the exception    *)
(* that ends the call.                                                     *)
(***************************************************************************)
RECURSIVE scan(_, _, _, _, _)
scan(app, i, p, n, slot) ==
    IF i > Len(app)
    THEN [kind |-> "none", idx |-> 0, err |-> "", prompt |-> p, negative_prompt |-> n]
    ELSE LET r == extract_style_from_prompts(app[i], p, n, slot)
         IN  IF r.raised
             THEN [kind |-> "raised", idx |-> i, err |-> r.err,
                   prompt |-> p, negative_prompt |-> n]
             ELSE IF r.is_match
             THEN [kind |-> "found", idx |-> i, err |-> "",
                   prompt |-> r.prompt, negative_prompt |-> r.negative_prompt]
             ELSE scan(app, i + 1, p, n, slot)

\* list.remove(x): drops the first element equal to x.
RECURSIVE Remove(_, _)
Remove(s, x) ==
    IF s = <<>> THEN <<>>
    ELSE IF Head(s) = x THEN Tail(s)
    ELSE <<Head(s)>> \o Remove(Tail(s), x)

(***************************************************************************)
(* Paths and names.  The folder of self.path is fixed, so a file of that   *)
(* folder is named by its file name; "divider" is the origin reload gives  *)
(* the divider records.  The str and os.path computations of the module    *)
(* are tabulated over the names the model draws.                           *)
(***************************************************************************)
Divider == "divider"

Paths == {"styles.csv", "styles*.csv"}

\* "*" in filename
HasStar(p) == p = "styles*.csv"

\* file.split("*")[0] + ".csv", or "styles.csv" when that is ".csv"
default_path(p) ==
    CASE p = "styles*.csv" -> "styles.csv"
      [] p = "styles.csv"  -> "styles.csv.csv"

\* fnmatch.fnmatch(file, filename.split("*")[0] + "*.csv"), for self.path "styles*.csv"
fnmatch(file) == file \in {"styles.csv", "styles_extra.csv", "styles.csv.csv"}

\* str.upper
Upper(n) ==
    CASE n = "styles.csv"       -> "STYLES.CSV"
      [] n = "styles_extra.csv" -> "STYLES_EXTRA.CSV"
      [] n = "styles.csv.csv"   -> "STYLES.CSV.CSV"
      [] OTHER                  -> n

\* str.lower
Lower(n) ==
    CASE n = "STYLES.CSV"       -> "styles.csv"
      [] n = "STYLES_EXTRA.CSV" -> "styles_extra.csv"
      [] n = "STYLES.CSV.CSV"   -> "styles.csv.csv"
      [] n = "Styles.csv"       -> "styles.csv"
      [] n = "A"                -> "a"
      [] n = "B"                -> "b"
      [] n = "C"                -> "c"
      [] n = "E"                -> "e"
      [] n = "W"                -> "w"
      [] OTHER                  -> n

\* row["name"].startswith("#")
IsComment(n) == n = "#note"

\* f"{style_path}.bak"
Bak(p) ==
    CASE p = "styles.csv"       -> "styles.csv.bak"
      [] p = "styles_extra.csv" -> "styles_extra.csv.bak"
      [] p = "styles.csv.csv"   -> "styles.csv.csv.bak"
      [] p = Divider            -> "divider.bak"

Exists(d, p) == p \in DOMAIN d

\* All orders in which a set can be enumerated (os.listdir, iteration of a set).
Orders(S) == {o \in [1..Cardinality(S) -> S] : \A x \in S : \E i \in DOMAIN o : o[i] = x}

(***************************************************************************)
(* StyleDatabase: the dict self.styles keeps insertion order, and          *)
(* assigning to a key it holds keeps the key's place.                      *)
(***************************************************************************)
PromptStyle(name, p, n, origin) ==
    [name |-> name, prompt |-> p, negative_prompt |-> n, path |-> origin]

no_style == PromptStyle("None", <<>>, <<>>, "None")

Put(d, rec) ==
    IF \E i \in 1..Len(d) : d[i].name = rec.name
    THEN [i \in 1..Len(d) |-> IF d[i].name = rec.name THEN rec ELSE d[i]]
    ELSE Append(d, rec)

Get(d, name) ==
    IF \E i \in 1..Len(d) : d[i].name = name
    THEN d[CHOOSE i \in 1..Len(d) : d[i].name = name]
    ELSE no_style

\* The rows drawn carry the three columns name, prompt, negative_prompt (the
\* legacy "text" column and a missing negative_prompt are not drawn).
RECURSIVE load_from_csv(_, _, _)
load_from_csv(d, p, rows) ==
    IF rows = <<>> THEN d
    ELSE LET row == Head(rows)
         IN  IF IsComment(row.name)
             THEN load_from_csv(d, p, Tail(rows))
             ELSE load_from_csv(
                      Put(d, PromptStyle(row.name, row.prompt, row.negative_prompt, p)),
                      p, Tail(rows))

\* The wildcard branch of reload: `listing` is os.listdir(path), in its order.
RECURSIVE load_matching(_, _, _)
load_matching(d, fs, listing) ==
    IF listing = <<>> THEN d
    ELSE LET file == Head(listing)
         IN  IF fnmatch(file)
             THEN load_matching(
                      load_from_csv(
                          Put(d, PromptStyle(Upper(file), NoneText, NoneText, Divider)),
                          file, fs[file]),
                      fs, Tail(listing))
             ELSE load_matching(d, fs, Tail(listing))

reload(p, fs, listing) ==
    IF HasStar(p) THEN load_matching(<<>>, fs, listing)
    ELSE IF ~Exists(fs, p) THEN <<>>
    ELSE load_from_csv(<<>>, p, fs[p])

\* The files of the folder of self.path ("divider" is written to the working directory).
Folder(fs) == DOMAIN fs \ {Divider, Bak(Divider)}

(***************************************************************************)
(* save_styles.                                                            *)
(***************************************************************************)
Truthy(origin) == origin # "None" /\ origin # ""

with_default_path(d, dflt) ==
    [i \in 1..Len(d) |-> IF Truthy(d[i].path) THEN d[i] ELSE [d[i] EXCEPT !.path = dflt]]

style_paths(d, dflt) == {dflt} \cup {d[i].path : i \in {j \in 1..Len(d) : Truthy(d[j].path)}}

\* os.path.split(path)[1].lower()
csv_names(ps) == {Lower(q) : q \in ps}

\* style.name.lower().strip("# "): no name drawn begins or ends with "#" or " "
\* except the comment row's, which load_from_csv never stores
name_key(n) == Lower(n)

\* csv.DictWriter writes None as the empty field
Field(t) == IF t = NoneText THEN <<>> ELSE t

RECURSIVE rows_written(_, _, _)
rows_written(d, style_path, names) ==
    IF d = <<>> THEN <<>>
    ELSE LET style == Head(d)
             rest  == rows_written(Tail(d), style_path, names)
         IN  IF style.path # style_path THEN rest
             ELSE IF Lower(style.path) = Divider THEN rest
             ELSE IF name_key(style.name) \in names THEN rest
             ELSE <<[name |-> style.name, prompt |-> Field(style.prompt),
                     negative_prompt |-> Field(style.negative_prompt)]>> \o rest

\* The writes of one save: every style path is backed up if it exists, then rewritten.
saved_disk(fs, d, ps) ==
    [q \in DOMAIN fs \cup ps \cup {Bak(r) : r \in ps \cap DOMAIN fs} |->
        IF q \in ps THEN rows_written(d, q, csv_names(ps))
        ELSE IF \E r \in ps \cap DOMAIN fs : q = Bak(r)
        THEN fs[CHOOSE r \in ps \cap DOMAIN fs : q = Bak(r)]
        ELSE fs[q]]

(***************************************************************************)
(* The lookups and folds of StyleDatabase.                                 *)
(***************************************************************************)
get_style_prompts(d, names) == [i \in 1..Len(names) |-> Get(d, names[i]).prompt]

get_negative_style_prompts(d, names) ==
    [i \in 1..Len(names) |-> Get(d, names[i]).negative_prompt]

db_apply_styles_to_prompt(d, p, names) ==
    apply_styles_to_prompt(p, get_style_prompts(d, names))

db_apply_negative_styles_to_prompt(d, n, names) ==
    apply_styles_to_prompt(n, get_negative_style_prompts(d, names))

(***************************************************************************)
(* Inputs.                                                                 *)
(***************************************************************************)
PromptChars == {"d", " "}
NegChars == {"n", " "}
TemplateChars == {"x", PH}
CandidateChars == {"d", "x"}

Row(name, p, n) == [name |-> name, prompt |-> p, negative_prompt |-> n]

RowA == Row("A", <<"x">>, <<>>)
RowB == Row("B", <<"y">>, <<"n">>)
RowC == Row("C", <<"z">>, <<>>)
RowE == Row("E", <<>>, <<>>)
RowW == Row("W", <<"x", PH>>, <<>>)
RowS == Row("Styles.csv", <<"x">>, <<>>)
RowK == Row("#note", <<>>, <<>>)

\* The databases the apply and extraction calls run on.
EngineDisks ==
    { [path |-> "styles.csv",  files |-> ("styles.csv" :> <<RowA, RowB, RowC>>)],
      [path |-> "styles.csv",  files |-> ("styles.csv" :> <<RowE, RowW>>)],
      [path |-> "styles.csv",  files |-> ("styles.csv" :> <<RowK, RowE>>)],
      [path |-> "styles*.csv", files |-> ("styles.csv" :> <<RowA, RowE>>)],
      [path |-> "styles*.csv",
       files |-> ("styles.csv" :> <<RowE>> @@ "styles_extra.csv" :> <<>>)],
      [path |-> "styles.csv",  files |-> <<>>] }

\* The file systems load and save run on.
StoreRows == {RowA, RowS, RowK}

StoreDisks ==
    UNION {[S -> Texts(StoreRows, MaxRows)] : S \in SUBSET {"styles.csv", "styles_extra.csv"}}

Names(d) == {d[i].name : i \in 1..Len(d)} \cup {"unknown"}

NoCall ==
    [kind |-> "none", T |-> <<>>, P |-> <<>>, N |-> <<>>, names |-> <<>>,
     raised |-> FALSE, err |-> "", matched |-> FALSE,
     out |-> <<>>, out2 |-> <<>>]

(***************************************************************************)
(* __init__: the state after construction.                                 *)
(***************************************************************************)
Construct(p, fs, listing, slot) ==
    /\ path = p
    /\ disk = fs
    /\ styles = reload(p, fs, listing)
    /\ reslot = slot
    /\ written = {}
    /\ op = "init"
    /\ call = NoCall
    /\ pc = "idle"
    /\ prompt = <<>>
    /\ negative_prompt = <<>>
    /\ applicable = <<>>
    /\ extracted = <<>>
    /\ passes = 0
    /\ given = <<<<>>, <<>>>>

Init ==
    \E d \in EngineDisks, slot \in ReSlots :
        \E listing \in Orders(Folder(d.files)) : Construct(d.path, d.files, listing, slot)

InitStore ==
    \E p \in Paths, fs \in StoreDisks, slot \in ReSlots :
        \E listing \in Orders(Folder(fs)) : Construct(p, fs, listing, slot)

InitPure ==
    \E slot \in ReSlots : Construct("styles.csv", <<>>, <<>>, slot)

(***************************************************************************)
(* Applying styles: apply_styles_to_prompt and                             *)
(* apply_negative_styles_to_prompt with one list of names, as the callers  *)
(* of the database pair them.  Neither apply nor extraction changes the    *)
(* database, so a run is one apply at most, then one extraction.           *)
(***************************************************************************)
Apply ==
    /\ pc = "idle"
    /\ call.kind = "none"
    /\ \E P \in Texts(PromptChars, MaxLen), N \in Texts(NegChars, MaxNegLen),
          names \in Texts(Names(styles), MaxNames) :
          LET a == db_apply_styles_to_prompt(styles, P, names)
              b == db_apply_negative_styles_to_prompt(styles, N, names)
          IN  call' = [NoCall EXCEPT !.kind = "apply", !.P = P, !.N = N,
                                     !.names = names,
                                     !.raised = a.raised \/ b.raised,
                                     !.err = IF a.raised \/ b.raised
                                             THEN "TypeError" ELSE "",
                                     !.out = a.val,
                                     !.out2 = b.val]
    /\ op' = "apply"
    /\ UNCHANGED <<path, disk, styles, reslot, written, pc, prompt, negative_prompt,
                   applicable, extracted, passes, given>>

(***************************************************************************)
(* extract_styles_from_prompt: the entry, then one action per pass of the  *)
(* loop.  A pass that finds no style ends the call (pc = "returned", the   *)
(* value returned is Returned); an exception ends it with pc = "raised"    *)
(* and op the exception.  It is called on the texts the apply produced,    *)
(* or on a drawn prompt.                                                   *)
(***************************************************************************)
ExtractInputs ==
    IF call.kind = "apply"
    THEN IF call.raised THEN {} ELSE {<<call.out, call.out2>>}
    ELSE {<<p, <<>>>> : p \in Texts(CandidateChars, MaxLen)}

Extract ==
    /\ pc = "idle"
    /\ \E in \in ExtractInputs :
          /\ given' = in
          /\ prompt' = in[1]
          /\ negative_prompt' = in[2]
    /\ applicable' = styles
    /\ extracted' = <<>>
    /\ passes' = 0
    /\ pc' = "loop"
    /\ op' = "extract"
    /\ UNCHANGED <<path, disk, styles, reslot, written, call>>

\* The pass without `if not found_style: break`: a pass that finds no style
\* goes round again.
Pass_without_break ==
    /\ pc = "loop"
    /\ passes < MaxPasses
    /\ LET r == scan(applicable, 1, prompt, negative_prompt, reslot)
       IN  /\ pc' = IF r.kind = "raised" THEN "raised" ELSE "loop"
           /\ op' = IF r.kind = "raised" THEN r.err ELSE "pass"
           /\ prompt' = r.prompt
           /\ negative_prompt' = r.negative_prompt
           /\ applicable' = IF r.kind = "found"
                            THEN Remove(applicable, applicable[r.idx])
                            ELSE applicable
           /\ extracted' = IF r.kind = "found"
                           THEN Append(extracted, applicable[r.idx].name)
                           ELSE extracted
    /\ passes' = passes + 1
    /\ UNCHANGED <<path, disk, styles, reslot, written, call, given>>

Pass ==
    /\ pc = "loop"
    /\ passes < MaxPasses
    /\ LET r == scan(applicable, 1, prompt, negative_prompt, reslot)
       IN  /\ pc' = CASE r.kind = "raised" -> "raised"
                      [] r.kind = "found"  -> "loop"
                      [] r.kind = "none"   -> "returned"
           /\ op' = IF r.kind = "raised" THEN r.err ELSE "pass"
           /\ prompt' = r.prompt
           /\ negative_prompt' = r.negative_prompt
           /\ applicable' = IF r.kind = "found"
                            THEN Remove(applicable, applicable[r.idx])
                            ELSE applicable
           /\ extracted' = IF r.kind = "found"
                           THEN Append(extracted, applicable[r.idx].name)
                           ELSE extracted
    /\ passes' = passes + 1
    /\ UNCHANGED <<path, disk, styles, reslot, written, call, given>>

Returned == <<Reversed(extracted), prompt, negative_prompt>>

(***************************************************************************)
(* reload and save_styles.                                                 *)
(***************************************************************************)
Reload ==
    /\ pc # "loop"
    /\ \E listing \in Orders(Folder(disk)) : styles' = reload(path, disk, listing)
    /\ op' = "reload"
    /\ UNCHANGED <<path, disk, reslot, written, call, pc, prompt, negative_prompt,
                   applicable, extracted, passes, given>>

Save ==
    /\ pc # "loop"
    /\ LET d  == with_default_path(styles, default_path(path))
           ps == style_paths(d, default_path(path))
       IN  /\ styles' = d
           /\ disk' = saved_disk(disk, d, ps)
           /\ written' = ps
    /\ op' = "save"
    /\ UNCHANGED <<path, reslot, call, pc, prompt, negative_prompt,
                   applicable, extracted, passes, given>>

(***************************************************************************)
(* Calls of the module-level functions on drawn arguments.                 *)
(***************************************************************************)
Merge ==
    /\ \E T \in Texts(TemplateChars, MaxTemplate), P \in Texts(PromptChars, MaxLen) :
          call' = [NoCall EXCEPT !.kind = "merge", !.T = T, !.P = P,
                                 !.out = merge_prompts(T, P)]
    /\ op' = "merge"
    /\ UNCHANGED <<path, disk, styles, reslot, written, pc, prompt, negative_prompt,
                   applicable, extracted, passes, given>>

\* extract_style_text_from_prompt(T, merged), merged the result of the last merge
ExtractMerged ==
    /\ call.kind = "merge"
    /\ LET r == extract_style_text_from_prompt(call.T, call.out, reslot)
       IN  call' = [call EXCEPT !.kind = "roundtrip", !.raised = r.raised,
                                !.err = r.err, !.matched = r.matched,
                                !.out2 = r.rem]
    /\ op' = "extract_style_text"
    /\ UNCHANGED <<path, disk, styles, reslot, written, pc, prompt, negative_prompt,
                   applicable, extracted, passes, given>>

\* extract_style_text_from_prompt(T, candidate) on any candidate
ExtractText ==
    /\ \E T \in Texts(TemplateChars, MaxTemplate),
          X \in Texts(CandidateChars, MaxLen) :
          LET r == extract_style_text_from_prompt(T, X, reslot)
          IN  call' = [NoCall EXCEPT !.kind = "extract", !.T = T, !.P = X,
                                     !.raised = r.raised, !.err = r.err,
                                     !.matched = r.matched, !.out = r.rem]
    /\ op' = "extract_style_text"
    /\ UNCHANGED <<path, disk, styles, reslot, written, pc, prompt, negative_prompt,
                   applicable, extracted, passes, given>>

\* The tidy-up loop on a text, and again on its result.
Tidy ==
    /\ \E X \in Texts(PromptChars \cup {",", "a"}, MaxLen) :
          LET once  == tidy(re_list, reslot, X)
              twice == IF once.raised THEN once ELSE tidy(re_list, reslot, once.val)
          IN  call' = [NoCall EXCEPT !.kind = "tidy", !.P = X,
                                     !.raised = once.raised \/ twice.raised,
                                     !.err = IF once.raised THEN once.err ELSE twice.err,
                                     !.out = once.val,
                                     !.out2 = twice.val]
    /\ op' = "tidy"
    /\ UNCHANGED <<path, disk, styles, reslot, written, pc, prompt, negative_prompt,
                   applicable, extracted, passes, given>>

(***************************************************************************)
(* Specifications.                                                         *)
(***************************************************************************)
Next == Apply \/ Extract \/ Pass

Spec == Init /\ [][Next]_vars

NextStore == Reload \/ Save

SpecStore == InitStore /\ [][NextStore]_vars

NextPure == Merge \/ ExtractMerged \/ ExtractText \/ Tidy

SpecPure == InitPure /\ [][NextPure]_vars

(***************************************************************************)
(* Properties.                                                             *)
(***************************************************************************)
Keys(d) == {d[i].name : i \in 1..Len(d)}

AllUnknown(names) == \A i \in 1..Len(names) : names[i] \notin Keys(styles)

HasTemplate(style) == ~(Falsy(style.prompt) /\ Falsy(style.negative_prompt))

\* Three distinct styles of the set whose templates are plain texts (no
\* placeholder), pairwise different and non-empty on the positive side.
ThreePlainStyles(names) ==
    /\ Len(names) = 3
    /\ \A i \in 1..3 :
          /\ names[i] \in Keys(styles)
          /\ Get(styles, names[i]).path # Divider
          /\ Get(styles, names[i]).prompt # <<>>
          /\ ~Contains(Get(styles, names[i]).prompt, PH)
          /\ ~Contains(Get(styles, names[i]).negative_prompt, PH)
    /\ \A i, j \in 1..3 :
          i # j => Get(styles, names[i]).prompt # Get(styles, names[j]).prompt

ExtractionEnded == pc \in {"returned", "raised"}

\* C1: extract_styles on the texts built by applying three distinct styles
\* [S1, S2, S3] to (P, N) returns (["S1", "S2", "S3"], P, N).
C1_RoundTripOfThree ==
    ( /\ call.kind = "apply"
      /\ ~call.raised
      /\ ThreePlainStyles(call.names)
      /\ given = <<call.out, call.out2>>
      /\ ExtractionEnded )
    => ( /\ pc = "returned"
         /\ Returned = <<call.names, call.P, call.N>> )

\* C2: for a template T without placeholder, extract(T, merge(T, P)) returns
\* (true, P).
C2_ExtractOfMerge ==
    (call.kind = "roundtrip" /\ ~Contains(call.T, PH))
    => (~call.raised /\ call.matched /\ call.out2 = call.P)

\* C3 as stated: applying names that are all unknown to the set returns the
\* prompt and the negative prompt unchanged (merge("", P) = P).
C3_EmptyTemplateIsIdentity ==
    (call.kind = "apply" /\ AllUnknown(call.names))
    => (~call.raised /\ call.out = call.P /\ call.out2 = call.N)

\* C3 as amended: applying a non-empty list of names that are all unknown
\* returns the prompt and the negative prompt with their leading and trailing
\* whitespace removed (merge("", P) = trimmed P); applying no name returns
\* them unchanged.
C3_EmptyTemplateTrims ==
    (call.kind = "apply" /\ AllUnknown(call.names))
    => ( /\ ~call.raised
         /\ call.out  = (IF call.names = <<>> THEN call.P ELSE Strip(call.P))
         /\ call.out2 = (IF call.names = <<>> THEN call.N ELSE Strip(call.N)) )

C3_Witness ==
    /\ call.kind = "apply"
    /\ call.names # <<>>
    /\ AllUnknown(call.names)
    /\ call.out # call.P
    /\ call.out = Strip(call.P)

\* C4: extract_styles terminates: every pass that finds a style takes it out
\* of the applicable set, a pass that finds none ends the loop, so at most
\* |styles| styles are stripped and at most |styles| + 1 passes run.
C4_PassesBounded ==
    pc # "idle"
    => ( /\ Len(extracted) <= Len(styles)
         /\ Len(applicable) + Len(extracted) = Len(styles)
         /\ passes <= Len(styles) + 1
         /\ (pc = "loop" => passes <= Len(extracted)) )

C4_Witness ==
    /\ pc = "returned"
    /\ Len(styles) > 0
    /\ passes = 1

\* C5: extract(template, candidate) returns a (matched, remainder) pair and
\* never raises, whatever the template (zero, one or several placeholders).
C5_ExtractNeverRaises ==
    call.kind \in {"extract", "roundtrip"} => ~call.raised

\* C6: normalization is idempotent: normalize(normalize(x)) = normalize(x).
C6_TidyIdempotent ==
    call.kind = "tidy" => (~call.raised /\ call.out2 = call.out)

\* The match rule of one style against the current texts: both templates match.
PairMatches(style, p, n) ==
    /\ HasTemplate(style)
    /\ match_style_text(style.prompt, p).matched
    /\ match_style_text(style.negative_prompt, n).matched

MatchingNow == {i \in 1..Len(applicable) :
                    PairMatches(applicable[i], prompt, negative_prompt)}

First(S) == CHOOSE i \in S : \A j \in S : i <= j

\* C7: every pass strips the first style, in the order of the applicable
\* styles, whose two templates match the current texts, and records its name;
\* a pass over texts no style matches strips nothing.
C7_GreedyFirstMatch ==
    [][ (pc = "loop" /\ passes' = passes + 1)
        => IF MatchingNow = {}
           THEN extracted' = extracted /\ applicable' = applicable
           ELSE /\ extracted' = Append(extracted, applicable[First(MatchingNow)].name)
                /\ applicable' = Remove(applicable, applicable[First(MatchingNow)])
                /\ pc' = "loop" ]_vars

\* C8: the extracted names hold no name twice, and each is the key of a
\* record of the set that has a non-empty template: never a divider, a style
\* with both templates empty or the no-op style.
C8_ExtractedAreRealStyles ==
    /\ \A i, j \in 1..Len(extracted) : i # j => extracted[i] # extracted[j]
    /\ \A i \in 1..Len(extracted) :
          /\ extracted[i] \in Keys(styles)
          /\ HasTemplate(Get(styles, extracted[i]))
          /\ Get(styles, extracted[i]).path # Divider
    /\ (pc = "returned" => Len(Returned[1]) = Len(extracted))

C8_Witness ==
    /\ pc = "returned"
    /\ passes = 1
    /\ \E i \in 1..Len(styles) : styles[i].path = Divider
    /\ \E i \in 1..Len(styles) :
          styles[i].path # Divider /\ ~HasTemplate(styles[i])
    /\ extracted = <<>>

\* C9: a pass that strips a style whose negative template is empty leaves the
\* negative prompt as it was, and one that strips a style whose positive
\* template is empty leaves the prompt as it was.
C9_OtherSideUnchanged ==
    [][ (pc = "loop" /\ Len(extracted') = Len(extracted) + 1)
        => LET style == Get(styles, extracted'[Len(extracted')])
           IN  /\ (style.negative_prompt = <<>> => negative_prompt' = negative_prompt)
               /\ (style.prompt = <<>> => prompt' = prompt) ]_vars

\* C10: save writes only the default storage unit and the origins of
\* non-divider records; it never opens the divider origin for writing and
\* writes no divider record.
C10_SaveWritesOnlyOrigins ==
    op = "save"
    => ( /\ written \subseteq
               {default_path(path)} \cup
               {styles[i].path : i \in {j \in 1..Len(styles) : styles[j].path # Divider}}
         /\ Divider \notin written
         /\ \A q \in written : \A k \in 1..Len(disk[q]) :
               \A i \in 1..Len(styles) :
                   styles[i].path = Divider => disk[q][k].name # styles[i].name )

====
